---------------------------- MODULE Spec2Model ----------------------------
(***************************************************************************)
(* Natural cubic spline interpolation (natural_cubic_splines_interpolation *)
(* .py): relajacion (successive over-relaxation), trazador_cubico (system  *)
(* construction and coefficients) and the sampling loop of plot_ncsi.      *)
(*                                                                         *)
(* Arithmetic.  The program computes in float64.  The model computes in    *)
(* fixed point: a real r is the integer nearest to r * Scale, sums and     *)
(* differences are exact, and every product and quotient is rounded to the *)
(* nearest unit (Mul, Div), as every float operation is rounded to the     *)
(* nearest float.  The unit 1/Scale is far coarser than float64, so the    *)
(* default tolerance of relajacion (1e-8, about 2^25 float units at the    *)
(* magnitudes involved) is represented by DefaultTol units: a tolerance    *)
(* that, like the source's one, lies above the rounding noise of a sweep.  *)
(* Indices are the source's 0-based indices: At(s, i) is s[i].             *)
(***************************************************************************)
EXTENDS Integers, Sequences, FiniteSets, TLC

VARIABLES
    caller,     \* the function the run entered: "trazador_cubico" or "relajacion"
    points,     \* argument of trazador_cubico: [type, pts], pts a sequence of <<x, y>>
    pc,         \* position of the run
    err,        \* message of the ValueError raised, "" if none
    assigned,   \* local names of trazador_cubico bound so far
    hk,         \* knot spacings (line 71)
    delta_yk,   \* y differences (line 73)
    mem,        \* array objects: the caller's "A", "b", "x0" and the solver's own "x"
    xref,       \* the object relajacion's local name x is bound to
    omega,      \* relaxation factor
    tol,        \* tolerance
    i,          \* row index of the running sweep (line 45)
    residual,   \* relajacion's local residual
    ret,        \* value returned by relajacion
    atcall,     \* history: A, b, x0 as they were when relajacion was called
    xsweep,     \* history: x as it was when the running sweep started
    sigmas,     \* second derivatives (line 98)
    coef,       \* [a, b, c, d] of trazador_cubico (lines 101-118)
    x,          \* sample abscissas of plot_ncsi (line 135)
    s,          \* index of the next sample to evaluate (line 139)
    pk          \* plot_ncsi's list of [xk, value] (line 137)

vars == <<caller, points, pc, err, assigned, hk, delta_yk, mem, xref, omega,
          tol, i, residual, ret, atcall, xsweep, sigmas, coef, x, s, pk>>

---------------------------------------------------------------------------
(* Bounds of the model *)

\* longest point sequence passed to trazador_cubico
MaxN == 5
\* fixed-point units per 1.0
Scale == 480
\* samples drawn by plot_ncsi (np.linspace(..., 1000) in the source)
NumSamples == 7
\* the default tolerance tol=1e-8 of relajacion, in fixed-point units
DefaultTol == 48

\* knot spacings and ordinates the point sequences are drawn from
Spacings == {1, 2}
Ordinates == {0, 1}
\* types of the object passed as points
Types == {"list", "tuple", "ndarray"}

---------------------------------------------------------------------------
(* Fixed-point arithmetic *)

At(seq, n) == seq[n + 1]

Abs(n) == IF n < 0 THEN -n ELSE n

\* a / b rounded to the nearest integer, b # 0
RoundDiv(a, b) ==
    IF b > 0 THEN (2 * a + b) \div (2 * b)
    ELSE (2 * (-a) + (-b)) \div (2 * (-b))

\* an integer of the source as a fixed-point number
Fx(n) == n * Scale

Mul(a, b) == RoundDiv(a * b, Scale)

Div(a, b) == RoundDiv(a * Scale, b)

\* Newton's iteration for the integer square root, from an estimate r above
\* it.  The next estimate q is bound by a one-element set, so that it is a
\* value, evaluated once, at every level of the recursion.
RECURSIVE Newton(_, _)
Newton(n, r) ==
    CHOOSE v \in { IF q >= r THEN r ELSE Newton(n, q) :
                      q \in {(r + n \div r) \div 2} } : TRUE

\* least integer r with r * r >= n.  For an integer tolerance t,
\* sqrt(n) > t exactly when CeilSqrt(n) > t.
CeilSqrt(n) ==
    IF n = 0 THEN 0
    ELSE LET r == Newton(n, n)
         IN  IF r * r = n THEN r ELSE r + 1

Zeros(n) == [j \in 1..n |-> 0]

---------------------------------------------------------------------------
(* relajacion *)

Rows(Arr) == Len(Arr)

Cols(Arr) == IF Len(Arr) = 0 THEN 0 ELSE Len(Arr[1])

\* lines 46-49: sigma accumulated over the columns j # row, from column j on
RECURSIVE SigmaFrom(_, _, _, _)
SigmaFrom(Arr, xv, row, j) ==
    IF j >= Cols(Arr) THEN 0
    ELSE (IF j # row THEN Mul(At(At(Arr, row), j), At(xv, j)) ELSE 0)
         + SigmaFrom(Arr, xv, row, j + 1)

\* the same sum read from the values x had when the sweep started
SigmaJacobi(Arr, xv, row) == SigmaFrom(Arr, xsweep, row, 0)

Sigma(Arr, xv, row) == SigmaFrom(Arr, xv, row, 0)

\* line 50: the value assigned to x[row]
Relaxed(Arr, bv, xv, w, row) ==
    Mul(Fx(1) - w, At(xv, row))
    + Mul(Div(w, At(At(Arr, row), row)), At(bv, row) - Sigma(Arr, xv, row))

\* np.matmul(A, x)[row]
RECURSIVE DotFrom(_, _, _, _)
DotFrom(Arr, xv, row, j) ==
    IF j >= Cols(Arr) THEN 0
    ELSE Mul(At(At(Arr, row), j), At(xv, j)) + DotFrom(Arr, xv, row, j + 1)

RECURSIVE SumSquaresFrom(_, _, _, _)
SumSquaresFrom(Arr, xv, bv, row) ==
    IF row >= Rows(Arr) THEN 0
    ELSE LET r == DotFrom(Arr, xv, row, 0) - At(bv, row)
         IN  r * r + SumSquaresFrom(Arr, xv, bv, row + 1)

\* lines 43, 51: np.linalg.norm(np.matmul(A, x) - b), rounded up to a unit
Norm(Arr, xv, bv) == CeilSqrt(SumSquaresFrom(Arr, xv, bv, 0))

\* a loop condition that gives up at twice the tolerance
WhileCondLoose(res, t) == res > 2 * t

\* line 44
WhileCond(res, t) == res > t

\* the name itself: x bound to the caller's object
CopyAlias(name) == name

\* line 42: x0.copy() is a new object, here named "x"
Copy(name) == "x"

\* lines 42-43
Enter ==
    /\ pc = "rl_enter"
    /\ atcall' = [A |-> mem["A"], b |-> mem["b"], x0 |-> mem["x0"]]
    /\ xref' = Copy("x0")
    /\ mem' = [mem EXCEPT ![Copy("x0")] = mem["x0"]]
    /\ residual' = Norm(mem["A"], mem["x0"], mem["b"])
    /\ pc' = "rl_while"
    /\ UNCHANGED <<caller, points, err, assigned, hk, delta_yk, omega, tol, i,
                   ret, xsweep, sigmas, coef, x, s, pk>>

\* line 44, condition true: a sweep starts at row 0 (line 45)
WhileEnter ==
    /\ pc = "rl_while"
    /\ WhileCond(residual, tol)
    /\ i' = 0
    /\ xsweep' = mem[xref]
    /\ pc' = "rl_row"
    /\ UNCHANGED <<caller, points, err, assigned, hk, delta_yk, mem, xref,
                   omega, tol, residual, ret, atcall, sigmas, coef, x, s, pk>>

\* lines 45-50: one iteration of the for loop over the rows
RowUpdate ==
    /\ pc = "rl_row"
    /\ i < Rows(mem["A"])
    /\ mem' = [mem EXCEPT ![xref][i + 1] =
                   Relaxed(mem["A"], mem["b"], mem[xref], omega, i)]
    /\ i' = i + 1
    /\ UNCHANGED <<caller, points, pc, err, assigned, hk, delta_yk, xref,
                   omega, tol, residual, ret, atcall, xsweep, sigmas, coef,
                   x, s, pk>>

\* line 51: the for loop is over, the residual is recomputed
SweepEnd ==
    /\ pc = "rl_row"
    /\ i >= Rows(mem["A"])
    /\ residual' = Norm(mem["A"], mem[xref], mem["b"])
    /\ pc' = "rl_while"
    /\ UNCHANGED <<caller, points, err, assigned, hk, delta_yk, mem, xref,
                   omega, tol, i, ret, atcall, xsweep, sigmas, coef, x, s, pk>>

\* line 44, condition false, and line 52
Return ==
    /\ pc = "rl_while"
    /\ ~WhileCond(residual, tol)
    /\ ret' = mem[xref]
    /\ pc' = "rl_returned"
    /\ UNCHANGED <<caller, points, err, assigned, hk, delta_yk, mem, xref,
                   omega, tol, i, residual, atcall, xsweep, sigmas, coef,
                   x, s, pk>>

---------------------------------------------------------------------------
(* trazador_cubico *)

\* line 63
IsListOrTuple(type) == type \in {"list", "tuple"}

\* a length check that lets three points through
TooShortBy3(pts) == Len(pts) < 3

\* line 65
TooShort(pts) == Len(pts) < 4

\* line 64
TypeMessage == "'points' must be a list or tuple"

\* line 66
LengthMessage == "The length of 'points' must be greater than 1"

\* lines 62-66
Validate ==
    /\ pc = "tc_validate"
    /\ IF ~IsListOrTuple(points.type)
       THEN /\ err' = TypeMessage
            /\ pc' = "raised"
       ELSE IF TooShort(points.pts)
       THEN /\ err' = LengthMessage
            /\ pc' = "raised"
       ELSE /\ err' = err
            /\ pc' = "tc_build"
    /\ UNCHANGED <<caller, points, assigned, hk, delta_yk, mem, xref, omega,
                   tol, i, residual, ret, atcall, xsweep, sigmas, coef, x, s, pk>>

\* lines 69, 103: column 0 of np.array(points)
Xk(pts) == [j \in 1..Len(pts) |-> Fx(pts[j][1])]

\* lines 69, 104: column 1 of np.array(points)
Yk(pts) == [j \in 1..Len(pts) |-> Fx(pts[j][2])]

\* lines 71, 73: v[1:] - v[:-1]
Diff(v) == [j \in 1..(Len(v) - 1) |-> v[j + 1] - v[j]]

\* a row whose diagonal entry is not doubled
TriRowWeak(h, k, r) ==
    IF r = 1
    THEN <<At(h, r - 1) + At(h, r), At(h, r)>> \o Zeros(k - 3)
    ELSE IF r = k - 1
    THEN Zeros(k - 3) \o <<At(h, r - 1), At(h, r - 1) + At(h, r)>>
    ELSE Zeros(r - 2) \o <<At(h, r - 1), At(h, r - 1) + At(h, r), At(h, r)>>
         \o Zeros(k - 2 - r)

\* a row whose inner entries start one column too far right
TriRowShifted(h, k, r) ==
    IF r = 1
    THEN <<2 * (At(h, r - 1) + At(h, r)), At(h, r)>> \o Zeros(k - 3)
    ELSE IF r = k - 1
    THEN Zeros(k - 3) \o <<At(h, r - 1), 2 * (At(h, r - 1) + At(h, r))>>
    ELSE Zeros(r - 1) \o <<At(h, r - 1), 2 * (At(h, r - 1) + At(h, r)), At(h, r)>>
         \o Zeros(k - 3 - r)

\* lines 80-87: the row appended to A in iteration i = r of the loop of line 78
TriRow(h, k, r) ==
    IF r = 1
    THEN <<2 * (At(h, r - 1) + At(h, r)), At(h, r)>> \o Zeros(k - 3)
    ELSE IF r = k - 1
    THEN Zeros(k - 3) \o <<At(h, r - 1), 2 * (At(h, r - 1) + At(h, r))>>
    ELSE Zeros(r - 2) \o <<At(h, r - 1), 2 * (At(h, r - 1) + At(h, r)), At(h, r)>>
         \o Zeros(k - 2 - r)

\* line 88: the entry appended to b in iteration i = r
Rhs(h, dy, r) ==
    6 * (Div(At(dy, r), At(h, r)) - Div(At(dy, r - 1), At(h, r - 1)))

\* omega=0.5 (line 22)
DefaultOmega == Scale \div 2

\* lines 69-96: the system is built and relajacion(A, b, x0) is called
BuildSystem ==
    /\ pc = "tc_build"
    /\ LET h  == Diff(Xk(points.pts))
           dy == Diff(Yk(points.pts))
           k  == Len(h)
           Am == [r \in 1..(k - 1) |-> TriRow(h, k, r)]
           bv == [r \in 1..(k - 1) |-> Rhs(h, dy, r)]
       IN  /\ hk' = h
           /\ delta_yk' = dy
           /\ mem' = [mem EXCEPT !["A"] = Am, !["b"] = bv,
                                 !["x0"] = Zeros(Len(bv))]
    /\ assigned' = assigned \cup {"hk", "delta_yk", "A", "b", "x0"}
    /\ omega' = DefaultOmega
    /\ tol' = DefaultTol
    /\ pc' = "rl_enter"
    /\ UNCHANGED <<caller, points, err, xref, i, residual, ret, atcall,
                   xsweep, sigmas, coef, x, s, pk>>

\* lines 96-98: relajacion's result between two zeros
AppendSigmas ==
    /\ pc = "rl_returned"
    /\ caller = "trazador_cubico"
    /\ sigmas' = <<0>> \o ret \o <<0>>
    /\ assigned' = assigned \cup {"sigmas"}
    /\ pc' = "tc_coef"
    /\ UNCHANGED <<caller, points, err, hk, delta_yk, mem, xref, omega, tol,
                   i, residual, ret, atcall, xsweep, coef, x, s, pk>>

\* line 107
CoefA(h, sg, j) == Div(At(sg, j + 1) - At(sg, j), 6 * At(h, j))

\* line 108
CoefB(h, sg, j) == Div(At(sg, j), Fx(2))

\* line 109
CoefC(h, yv, sg, j) ==
    Div(At(yv, j + 1) - At(yv, j), At(h, j))
    - Div(Mul(2 * At(h, j), At(sg, j)) + Mul(At(h, j), At(sg, j + 1)), Fx(6))

\* line 106: range(k-1), the number of segments that get coefficients
CoefCount(k) == k - 1

\* lines 101-118
Coefficients ==
    /\ pc = "tc_coef"
    /\ LET k  == Len(hk)
           yv == Yk(points.pts)
           m  == CoefCount(k)
       IN  coef' = [a |-> [j \in 1..m |-> CoefA(hk, sigmas, j - 1)],
                    b |-> [j \in 1..m |-> CoefB(hk, sigmas, j - 1)],
                    c |-> [j \in 1..m |-> CoefC(hk, yv, sigmas, j - 1)],
                    d |-> [j \in 1..m |-> At(yv, j - 1)]]
    /\ assigned' = assigned \cup {"a", "b", "c", "d"}
    /\ pc' = "tc_returned"
    /\ UNCHANGED <<caller, points, err, hk, delta_yk, mem, xref, omega, tol,
                   i, residual, ret, atcall, xsweep, sigmas, x, s, pk>>

---------------------------------------------------------------------------
(* plot_ncsi *)

\* np.linspace(start, stop, num): start + j * step, the last sample set to stop
Linspace(start, stop, num) ==
    LET step == Div(stop - start, Fx(num - 1))
    IN  [j \in 1..num |-> IF j = num THEN stop
                          ELSE start + Mul(Fx(j - 1), step)]

\* line 142: the cubic of segment j at xk
Poly(pts, co, j, xk) ==
    LET t == xk - Fx(At(pts, j)[1])
    IN  Mul(At(co.a, j), Mul(Mul(t, t), t)) + Mul(At(co.b, j), Mul(t, t))
        + Mul(At(co.c, j), t) + At(co.d, j)

\* lines 140-142: the entries appended to pk for xk by segments j, j+1, ...
RECURSIVE Hits(_, _, _, _)
Hits(pts, co, j, xk) ==
    IF j >= Len(co.a) THEN <<>>
    ELSE (IF Fx(At(pts, j)[1]) <= xk /\ xk <= Fx(At(pts, j + 1)[1])
          THEN <<(<<xk, Poly(pts, co, j, xk)>>)>> ELSE <<>>)
         \o Hits(pts, co, j + 1, xk)

\* lines 135-137
PlotInit ==
    /\ pc = "tc_returned"
    /\ x' = Linspace(Fx(At(points.pts, 0)[1]),
                     Fx(At(points.pts, Len(points.pts) - 1)[1]), NumSamples)
    /\ pk' = <<>>
    /\ s' = 0
    /\ pc' = "plot_loop"
    /\ UNCHANGED <<caller, points, err, assigned, hk, delta_yk, mem, xref,
                   omega, tol, i, residual, ret, atcall, xsweep, sigmas, coef>>

\* lines 139-142: one iteration of the loop over the samples
PlotSample ==
    /\ pc = "plot_loop"
    /\ s < Len(x)
    /\ pk' = pk \o Hits(points.pts, coef, 0, At(x, s))
    /\ s' = s + 1
    /\ UNCHANGED <<caller, points, pc, err, assigned, hk, delta_yk, mem, xref,
                   omega, tol, i, residual, ret, atcall, xsweep, sigmas, coef, x>>

\* lines 145-151: the samples are exhausted and pk is drawn
PlotShow ==
    /\ pc = "plot_loop"
    /\ s >= Len(x)
    /\ pc' = "done"
    /\ UNCHANGED <<caller, points, err, assigned, hk, delta_yk, mem, xref,
                   omega, tol, i, residual, ret, atcall, xsweep, sigmas, coef,
                   x, s, pk>>

---------------------------------------------------------------------------
(* Inputs and specification *)

\* abscissa of point j (0-based) of a sequence with spacings hs, starting at 0
RECURSIVE Abscissa(_, _)
Abscissa(hs, j) == IF j = 0 THEN 0 ELSE Abscissa(hs, j - 1) + hs[j]

\* point sequences of n points with strictly increasing x
PointSeqs(n) ==
    { [j \in 1..n |-> <<Abscissa(hs, j - 1), ys[j]>>] :
        hs \in [1..(n - 1) -> Spacings], ys \in [1..n -> Ordinates] }

\* systems relajacion is called with directly
SolverA == { <<(<<4, 1>>), (<<1, 3>>)>>, <<(<<2, -1>>), (<<-1, 2>>)>> }
SolverB == { <<1, 2>>, <<0, 3>> }
SolverX0 == { <<0, 0>>, <<1, -1>> }
Omegas == { 0, Scale \div 2, Scale }

FxVec(v) == [j \in 1..Len(v) |-> Fx(v[j])]

FxMat(Arr) == [r \in 1..Len(Arr) |-> FxVec(Arr[r])]

NoArrays == [n \in {"A", "b", "x0", "x"} |-> <<>>]

InitCommon ==
    /\ err = ""
    /\ assigned = {}
    /\ hk = <<>>
    /\ delta_yk = <<>>
    /\ xref = ""
    /\ i = 0
    /\ residual = 0
    /\ ret = <<>>
    /\ atcall = [A |-> <<>>, b |-> <<>>, x0 |-> <<>>]
    /\ xsweep = <<>>
    /\ sigmas = <<>>
    /\ coef = [a |-> <<>>, b |-> <<>>, c |-> <<>>, d |-> <<>>]
    /\ x = <<>>
    /\ s = 0
    /\ pk = <<>>

\* lines 161-162: the program calls trazador_cubico(points), points an
\* object of at most maxn points
InitTrazadorUpTo(maxn) ==
    /\ caller = "trazador_cubico"
    /\ \E n \in 0..maxn : \E pts \in PointSeqs(n) : \E ty \in Types :
           points = [type |-> ty, pts |-> pts]
    /\ pc = "tc_validate"
    /\ mem = NoArrays
    /\ omega = 0
    /\ tol = 0

\* line 22: a caller calls relajacion(A, b, x0, omega, tol)
InitRelajacion ==
    /\ caller = "relajacion"
    /\ points = [type |-> "list", pts |-> <<>>]
    /\ pc = "rl_enter"
    /\ \E Am \in SolverA : \E bv \in SolverB : \E xv \in SolverX0 :
           mem = [NoArrays EXCEPT !["A"] = FxMat(Am), !["b"] = FxVec(bv),
                                  !["x0"] = FxVec(xv)]
    /\ omega \in Omegas
    /\ tol \in {0, DefaultTol}

Init == InitCommon /\ (InitTrazadorUpTo(MaxN) \/ InitRelajacion)

\* the calls of trazador_cubico with 0 to 4 points
InitShort == InitCommon /\ InitTrazadorUpTo(4)

Next ==
    \/ Validate
    \/ BuildSystem
    \/ Enter
    \/ WhileEnter
    \/ RowUpdate
    \/ SweepEnd
    \/ Return
    \/ AppendSigmas
    \/ Coefficients
    \/ PlotInit
    \/ PlotSample
    \/ PlotShow

Spec == Init /\ [][Next]_vars

\* the run is sequential and is never suspended: an enabled step is taken
FairSpec == InitShort /\ [][Next]_vars /\ WF_vars(Next)

---------------------------------------------------------------------------
(* Properties *)

N == Len(points.pts)

\* abscissa and ordinate of knot j (0-based), taken from the argument
KnotX(j) == Fx(At(points.pts, j)[1])
KnotY(j) == Fx(At(points.pts, j)[2])

FromTrazador == caller = "trazador_cubico"

SolverReturned == pc \in {"rl_returned", "tc_coef", "tc_returned", "plot_loop", "done"}

CoefReturned == pc \in {"tc_returned", "plot_loop", "done"}

\* C1: trazador_cubico returns four arrays a, b, c, d of exactly n-1 entries
\* each, one per segment 0 .. n-2.
C1_ArraysHaveNMinus1Entries ==
    (FromTrazador /\ CoefReturned) =>
        /\ Len(coef.a) = N - 1
        /\ Len(coef.b) = N - 1
        /\ Len(coef.c) = N - 1
        /\ Len(coef.d) = N - 1

\* what the code returns instead: n-2 entries, the last segment has none
C1_Observed ==
    (FromTrazador /\ CoefReturned) =>
        /\ Len(coef.a) = N - 2
        /\ Len(coef.b) = N - 2
        /\ Len(coef.c) = N - 2
        /\ Len(coef.d) = N - 2

C2_Safety ==
    (FromTrazador /\ IsListOrTuple(points.type)) =>
        /\ N < 4 =>
              /\ pc \in {"tc_validate", "raised"}
              /\ pc = "raised" => err = LengthMessage
              /\ assigned = {}
              /\ hk = <<>> /\ delta_yk = <<>> /\ mem = NoArrays
              /\ sigmas = <<>>
              /\ coef = [a |-> <<>>, b |-> <<>>, c |-> <<>>, d |-> <<>>]
        /\ N = 4 => (pc # "raised" /\ err = "")

\* C2: a list or tuple of 0..3 points is rejected with the ValueError before
\* the spacings, the matrix or any coefficient is computed and nothing is
\* returned; a sequence of exactly 4 points is not rejected and its run
\* reaches the return of the coefficient arrays.
C2_MinimumSizeRejection ==
    /\ []C2_Safety
    /\ (FromTrazador /\ IsListOrTuple(points.type) /\ N = 4) ~> CoefReturned

C2_Witness ==
    /\ FromTrazador /\ points.type = "tuple" /\ N = 3
    /\ pc = "raised" /\ err = LengthMessage

C4_CallerArraysUntouched ==
    pc \in {"rl_while", "rl_row", "rl_returned"} =>
        /\ mem["x0"] = atcall.x0
        /\ mem["A"] = atcall.A
        /\ mem["b"] = atcall.b

C4_Witness ==
    /\ pc = "rl_row"
    /\ i >= 1
    /\ mem[xref] # atcall.x0

\* the value row j holds after its update in the running sweep, by the
\* successive over-relaxation recurrence over the previous sweep's x
RECURSIVE GSValue(_), GSSum(_, _)
GSValue(row) ==
    Mul(Fx(1) - omega, At(xsweep, row))
    + Mul(Div(omega, At(At(mem["A"], row), row)),
          At(mem["b"], row) - GSSum(row, 0))
GSSum(row, j) ==
    IF j >= Cols(mem["A"]) THEN 0
    ELSE (IF j < row THEN Mul(At(At(mem["A"], row), j), GSValue(j))
          ELSE IF j > row THEN Mul(At(At(mem["A"], row), j), At(xsweep, j))
          ELSE 0)
         + GSSum(row, j + 1)

\* C9: within a sweep the rows are updated in increasing order, and x[i] is
\* computed from the values written in the same sweep for j < i and from the
\* previous sweep's values for j > i.
C9_InPlaceSweep ==
    pc = "rl_row" =>
        \A j \in 0..(Rows(mem["A"]) - 1) :
            At(mem[xref], j) = IF j < i THEN GSValue(j) ELSE At(xsweep, j)

C9_Witness ==
    /\ pc = "rl_row"
    /\ i >= 2
    /\ At(At(mem["A"], 1), 0) # 0
    /\ At(mem[xref], 0) # At(xsweep, 0)

\* C8: the matrix built for sigma[1..n-2] is (n-2)x(n-2); row of unknown r
\* holds 2(h[r-1]+h[r]) on the diagonal, h[r-1] left of it, h[r] right of it
\* and 0 elsewhere.
C8_Tridiagonal ==
    (FromTrazador /\ "A" \in assigned) =>
        LET Am == mem["A"]
            H(j) == KnotX(j + 1) - KnotX(j)
        IN  /\ Len(Am) = N - 2
            /\ \A r \in 1..(N - 2) :
                  /\ Len(Am[r]) = N - 2
                  /\ \A c \in 1..(N - 2) :
                        Am[r][c] = IF c = r THEN 2 * (H(r - 1) + H(r))
                                   ELSE IF c = r - 1 THEN H(r - 1)
                                   ELSE IF c = r + 1 THEN H(r)
                                   ELSE 0

C8_Witness ==
    /\ FromTrazador /\ "A" \in assigned
    /\ N = 5
    /\ pc = "rl_enter"

RECURSIVE AbsSum(_, _)
AbsSum(row, j) == IF j > Len(row) THEN 0 ELSE Abs(row[j]) + AbsSum(row, j + 1)

\* C10: with positive spacings the matrix passed to relajacion is strictly
\* diagonally dominant with non-zero diagonal.
C10_DiagonallyDominant ==
    (FromTrazador /\ "A" \in assigned /\ \A j \in 1..Len(hk) : hk[j] > 0) =>
        \A r \in 1..Len(mem["A"]) :
            LET row == mem["A"][r]
            IN  /\ row[r] # 0
                /\ Abs(row[r]) > AbsSum(row, 1) - Abs(row[r])

C10_Witness ==
    /\ FromTrazador /\ "A" \in assigned
    /\ Len(mem["A"]) = 3
    /\ \E j \in 1..Len(hk) : hk[j] = Fx(2)
    /\ pc = "rl_while"

\* C5: at every interior knot kn (1 <= kn <= n-2) the returned arrays hold
\* coefficients of segments kn-1 and kn, and both cubics evaluate to y_kn at
\* x_kn within the solver tolerance.
C5_Continuity ==
    (FromTrazador /\ CoefReturned) =>
        \A kn \in 1..(N - 2) :
            /\ kn < Len(coef.a)
            /\ Abs(Poly(points.pts, coef, kn - 1, KnotX(kn)) - KnotY(kn)) <= tol
            /\ Abs(Poly(points.pts, coef, kn, KnotX(kn)) - KnotY(kn)) <= tol

\* C6: every sample x of plot_ncsi inside [points[0].x, points[-1].x] gets a
\* value: pk holds an entry [x, f_j(x)] of a segment j that contains x.
C6_EverySampleHasValue ==
    (pc \in {"plot_loop", "done"}) =>
        \A n \in 0..(s - 1) :
            (KnotX(0) <= At(x, n) /\ At(x, n) <= KnotX(N - 1)) =>
                \E e \in 1..Len(pk) : \E j \in 0..(Len(coef.a) - 1) :
                    /\ pk[e][1] = At(x, n)
                    /\ KnotX(j) <= At(x, n) /\ At(x, n) <= KnotX(j + 1)
                    /\ pk[e][2] = Poly(points.pts, coef, j, At(x, n))

\* the constraint a message of trazador_cubico states, evaluated on an input
MessageHolds(msg, p) ==
    IF msg = "'points' must be a list or tuple" THEN p.type \in {"list", "tuple"}
    ELSE IF msg = "The length of 'points' must be greater than 1" THEN Len(p.pts) > 1
    ELSE TRUE

\* C7: whenever trazador_cubico rejects its input, the message names the
\* constraint the input violated (the type, or the minimum length enforced).
C7_MessageNamesViolatedConstraint ==
    pc = "raised" => ~MessageHolds(err, points)

====
